---------------------------- MODULE Spec2Model ----------------------------
(***************************************************************************)
(* A model of the covidreams analysis scripts.                             *)
(*                                                                         *)
(*   utils.py            filter_flair, preprocess_subreddit   (SpecFilter) *)
(*   anxiety_corr.py     weekly lagged percent-change correlation          *)
(*   anxiety_regr.py     interrupted time-series regression                *)
(*   nightmares_chi2.py  pre/post chi-square test with bootstrap CIs       *)
(*                                                                         *)
(* Every script is a linear batch job, so each one is a specification of   *)
(* its own over the shared variables; the variables of the other scripts   *)
(* stay at their idle values.                                              *)
(***************************************************************************)
EXTENDS Integers, Sequences, FiniteSets, TLC

VARIABLES
    data,       \* utils: the caller's table (a pandas DataFrame)
    call,       \* utils: the last call made on data, or "none"
    res,        \* utils: what that call returned / raised
    chi2_in,    \* nightmares_chi2: the preprocessed table (line 42)
    chi2_run,   \* nightmares_chi2: which run of the script this is
    chi2_pc,    \* nightmares_chi2: position in the script, or the error raised
    chi2_df,    \* nightmares_chi2: the windowed, labelled table (line 54)
    chi2_boot,  \* nightmares_chi2: resample sums drawn so far by compute_bootci, ascending
    chi2_ci,    \* nightmares_chi2: pre_nm_ci, post_nm_ci
    chi2_files, \* nightmares_chi2: the files each run has written
    corr_posts,   \* anxiety_corr: the --posts argument
    corr_grouped, \* anxiety_corr: the weekly means per subreddit (line 70)
    corr_pc,      \* anxiety_corr: position in the script, or the error raised
    corr_weekly,  \* anxiety_corr: the weekly table
    corr_n,       \* anxiety_corr: the sample size pg.corr reports
    corr_files,   \* anxiety_corr: the files written
    regr_means,   \* anxiety_regr: the daily means (line 60)
    regr_pc,      \* anxiety_regr: position in the script, or the error raised
    regr_daily,   \* anxiety_regr: the windowed table with its regressors
    regr_pre,     \* anxiety_regr: daily_precovid
    regr_pred,    \* anxiety_regr: the dates predicted holds a value for
    regr_files    \* anxiety_regr: the files written

filterVars == <<data, call, res>>

chi2Vars == <<chi2_in, chi2_run, chi2_pc, chi2_df, chi2_boot, chi2_ci, chi2_files>>

corrVars == <<corr_posts, corr_grouped, corr_pc, corr_weekly, corr_n, corr_files>>

regrVars == <<regr_means, regr_pc, regr_daily, regr_pre, regr_pred, regr_files>>

vars == <<filterVars, chi2Vars, corrVars, regrVars>>

notFilterVars == <<chi2Vars, corrVars, regrVars>>

notChi2Vars == <<filterVars, corrVars, regrVars>>

notCorrVars == <<filterVars, chi2Vars, regrVars>>

notRegrVars == <<filterVars, chi2Vars, corrVars>>

-----------------------------------------------------------------------------
(* Missing values and small helpers                                        *)

\* pandas NaN / None in an object column
NA == "<NA>"

Min(a, b) == IF a <= b THEN a ELSE b

Range(s) == {s[i] : i \in DOMAIN s}

\* the rows of s at the positions where keep(i) holds, in order
RECURSIVE SelectIdx(_, _, _)
SelectIdx(s, keep(_), i) ==
    IF i > Len(s) THEN <<>>
    ELSE (IF keep(i) THEN <<s[i]>> ELSE <<>>) \o SelectIdx(s, keep, i + 1)

-----------------------------------------------------------------------------
(* utils.py                                                                *)

\* bound: rows of an input table
MaxRows == 2

DreamFlair == {"Short Dream", "Medium Dream", "Long Dream"}

Sentinels == {"[deleted]", "[removed]"}

TextColumns == {"selftext", "title"}

FlairModes == {"dreams", "wake"}

\* pd.to_datetime(df["created_utc"], unit="s", utc=True)
\* (a timezone-aware instant; seconds since the epoch, in UTC)
ToTimestamp(created_utc) == [sec |-> created_utc, tz |-> "UTC"]

\* df[column].isin(values): a missing value is in no list
IsIn(v, values) == v # NA /\ v \in values

\* faulty variant: keep="last"
DropDuplicatesKeepLast(rows, column) ==
    SelectIdx(rows,
              LAMBDA i : \A j \in (i + 1)..Len(rows) : rows[j][column] # rows[i][column],
              1)

\* df.drop_duplicates(subset=[column], keep="first")
DropDuplicates(rows, column) ==
    SelectIdx(rows,
              LAMBDA i : \A j \in 1..(i - 1) : rows[j][column] # rows[i][column],
              1)

\* faulty variant: reset_index() without drop=True keeps the old index as a column
ResetIndexKeepOld(t) ==
    LET name == IF "index" \in t.cols THEN "level_0" ELSE "index" IN
    [cols |-> t.cols \cup {name},
     rows |-> [i \in DOMAIN t.rows |->
                [f \in DOMAIN t.rows[i] \cup {name} |->
                    CASE f = "_idx" -> i - 1
                      [] f = name -> t.rows[i]["_idx"]
                      [] OTHER -> t.rows[i][f]]]]

\* df.reset_index(drop=True): the row labels become 0..n-1
ResetIndex(t) ==
    [cols |-> t.cols,
     rows |-> [i \in DOMAIN t.rows |-> [t.rows[i] EXCEPT !["_idx"] = i - 1]]]

\* df["timestamp"] = pd.to_datetime(df["created_utc"], unit="s", utc=True)
AddTimestamp(rows) ==
    [i \in DOMAIN rows |->
        [f \in DOMAIN rows[i] \cup {"timestamp"} |->
            IF f = "timestamp" THEN ToTimestamp(rows[i].created_utc) ELSE rows[i][f]]]

\* the body of preprocess_subreddit after its assertion; returns the new
\* table and the caller's table as the call leaves it
PreprocessBody(df, column) ==
    LET stamped == [cols |-> df.cols \cup {"timestamp"},
                    rows |-> AddTimestamp(df.rows)]
        r1 == SelectSeq(stamped.rows, LAMBDA r : ~IsIn(r[column], Sentinels))
        r2 == SelectSeq(r1, LAMBDA r : r[column] # NA)
        r3 == DropDuplicates(r2, column)
        r4 == IF "WC" \in stamped.cols
              THEN SelectSeq(r3, LAMBDA r : r.WC >= 1)
              ELSE SelectSeq(r3, LAMBDA r : Len(r[column]) >= 1)
    IN  [err |-> "none",
         out |-> ResetIndex([cols |-> stamped.cols, rows |-> r4]),
         df  |-> stamped]

preprocess_subreddit(df, column) ==
    IF column \notin TextColumns
    THEN [err |-> "AssertionError", out |-> NA, df |-> df]
    ELSE PreprocessBody(df, column)

\* faulty variant: a missing flair matches neither mode
PostIdxDropMissing(r, posts) ==
    /\ r.link_flair_text # NA
    /\ IF posts = "wake"
       THEN r.link_flair_text \notin DreamFlair
       ELSE r.link_flair_text \in DreamFlair

\* df["link_flair_text"].isin(dream_flair), negated for posts == "wake"
PostIdx(r, posts) ==
    IF posts = "wake"
    THEN ~IsIn(r.link_flair_text, DreamFlair)
    ELSE IsIn(r.link_flair_text, DreamFlair)

filter_flair(df, posts) ==
    IF posts \notin FlairModes
    THEN [err |-> "AssertionError", out |-> NA, df |-> df]
    ELSE [err |-> "none",
          out |-> ResetIndex([cols |-> df.cols,
                              rows |-> SelectSeq(df.rows, LAMBDA r : PostIdx(r, posts))]),
          df  |-> df]

\* --- input tables ---------------------------------------------------------

\* text values of a loaded table: read_csv turns an empty field into NaN
Texts == {NA, "[deleted]", "[removed]", "a", "b"}

\* a table built in memory without a word count may hold empty strings
RawTexts == Texts \cup {""}

Flairs == {NA, "Short Dream", "Rant"}

OtherColumn(c) == IF c = "selftext" THEN "title" ELSE "selftext"

\* row i of a table whose varying text column is focus; "_idx" is the row's
\* label in the DataFrame index (read_csv numbers the rows from 0)
InputRow(i, focus, text, flair) ==
    [f \in {"_idx", "id", "created_utc", "link_flair_text", focus, OtherColumn(focus)} |->
        CASE f = "_idx" -> i - 1
          [] f = "id" -> i
          [] f = "created_utc" -> i
          [] f = "link_flair_text" -> flair
          [] f = focus -> text
          [] OTHER -> "x"]

WithWC(r, wc) == [f \in DOMAIN r \cup {"WC"} |-> IF f = "WC" THEN wc ELSE r[f]]

\* a loaded table with a word count column (LIWC output)
ScoredTable(n, focus, t, fl, w) ==
    [cols |-> {"WC"},
     rows |-> [i \in 1..n |-> WithWC(InputRow(i, focus, t[i], fl[i]), w[i])]]

\* a table without one (the raw scrape)
RawTable(n, focus, t, fl) ==
    [cols |-> {},
     rows |-> [i \in 1..n |-> InputRow(i, focus, t[i], fl[i])]]

\* --- the calls --------------------------------------------------------------

InitFilter ==
    /\ \E n \in 0..MaxRows, focus \in TextColumns :
        \E fl \in [1..n -> Flairs] :
            \/ \E t \in [1..n -> Texts], w \in [1..n -> {0, 1}] :
                    data = ScoredTable(n, focus, t, fl, w)
            \/ \E t \in [1..n -> RawTexts] :
                    data = RawTable(n, focus, t, fl)
    /\ call = [fn |-> "none", arg |-> NA]
    /\ res = [err |-> "none", out |-> NA]

CallFilterFlair(posts) ==
    /\ call.fn = "none"
    /\ LET r == filter_flair(data, posts) IN
        /\ res' = [err |-> r.err, out |-> r.out]
        /\ data' = r.df
    /\ call' = [fn |-> "filter_flair", arg |-> posts]
    /\ UNCHANGED notFilterVars

CallPreprocess(column) ==
    /\ call.fn = "none"
    /\ LET r == preprocess_subreddit(data, column) IN
        /\ res' = [err |-> r.err, out |-> r.out]
        /\ data' = r.df
    /\ call' = [fn |-> "preprocess_subreddit", arg |-> column]
    /\ UNCHANGED notFilterVars

\* the caller passes the returned table on to its next call
\* (drms = filter_flair(data); df = preprocess_subreddit(drms))
PassOn ==
    /\ call.fn # "none"
    /\ res.err = "none"
    /\ data' = res.out
    /\ call' = [fn |-> "none", arg |-> NA]
    /\ res' = [err |-> "none", out |-> NA]
    /\ UNCHANGED notFilterVars

NextFilter ==
    \/ \E posts \in FlairModes \cup {"all"} : CallFilterFlair(posts)
    \/ \E column \in TextColumns \cup {"body"} : CallPreprocess(column)
    \/ PassOn

FilterIdle ==
    /\ data = [cols |-> {}, rows |-> <<>>]
    /\ call = [fn |-> "none", arg |-> NA]
    /\ res = [err |-> "none", out |-> NA]

-----------------------------------------------------------------------------
(* nightmares_chi2.py                                                      *)

\* bound: rows of the preprocessed table
MaxPosts == 3

\* bound: bootstrap resamples (n_boot=10000 in the script)
NBoot == 2

\* pd.Timedelta("30D"), in days
WindowDays == 30

LastSec == 24 * 60 * 60 - 1

LastNano == 1000 * 1000 * 1000 - 1

\* An instant is [day, sec, nano]: days since {year}-03-11 00:00 UTC, the
\* second of the day and the nanosecond of the second.
Instant(day, sec, nano) == [day |-> day, sec |-> sec, nano |-> nano]

\* a <= b on instants
Leq(a, b) ==
    \/ a.day < b.day
    \/ a.day = b.day /\ a.sec < b.sec
    \/ a.day = b.day /\ a.sec = b.sec /\ a.nano <= b.nano

\* covid_dt = pd.to_datetime(f"{year}-03-11", utc=True)
covid_dt == Instant(0, 0, 0)

\* start_dt = covid_dt - pd.Timedelta("30D")
start_dt == Instant(covid_dt.day - WindowDays, covid_dt.sec, covid_dt.nano)

\* end_dt = covid_dt + pd.Timedelta("30D")
end_dt == Instant(covid_dt.day + WindowDays, covid_dt.sec, covid_dt.nano)

\* Series.between(left, right, inclusive="both")
Between(t, left, right) == Leq(left, t) /\ Leq(t, right)

\* faulty variant: inclusive="right"
PostCovidLabelExclusive(t) == ~Leq(t, covid_dt) /\ Leq(t, end_dt)

\* df["PostCovid"] = df["timestamp"].between(covid_dt, end_dt, inclusive="both")
PostCovidLabel(t) == Between(t, covid_dt, end_dt)

\* df["nightmare"].gt(0).astype(int)
Binarize(x) == IF x > 0 THEN 1 ELSE 0

\* lines 50-54: binarize, reduce to the window, label
LabelWindow(df) ==
    LET bin == [i \in DOMAIN df |-> [df[i] EXCEPT !.nightmare = Binarize(@)]]
        win == SelectSeq(bin, LAMBDA r : Between(r.timestamp, start_dt, end_dt))
    IN  [i \in DOMAIN win |->
            [timestamp |-> win[i].timestamp,
             nightmare |-> win[i].nightmare,
             PostCovid |-> PostCovidLabel(win[i].timestamp)]]

\* df.query("PostCovid==...")["nightmare"].to_numpy()
NmVals(df, post) ==
    LET sel == SelectSeq(df, LAMBDA r : r.PostCovid = post)
    IN  [i \in DOMAIN sel |-> sel[i].nightmare]

RECURSIVE SumSeq(_)
SumSeq(s) == IF s = <<>> THEN 0 ELSE Head(s) + SumSeq(Tail(s))

\* the observed crosstab of pg.chi2_independence: a row per PostCovid value
\* seen, the counts of nightmare = 0 and nightmare = 1, and the row total
Observed(df) ==
    [post \in {r.PostCovid : r \in Range(df)} |->
        LET v == NmVals(df, post) IN
        [n0 |-> Len(v) - SumSeq(v), n1 |-> SumSeq(v), total |-> Len(v)]]

\* the sums one bootstrap resample of x can have: x[idx] for an index vector
\* idx drawn with replacement
ResampleSums(x) ==
    {SumSeq([i \in DOMAIN x |-> x[idx[i]]]) : idx \in [DOMAIN x -> DOMAIN x]}

\* v put into the ascending sequence s
SortInsert(v, s) ==
    LET k == Cardinality({i \in DOMAIN s : s[i] <= v})
    IN  SubSeq(s, 1, k) \o <<v>> \o SubSeq(s, k + 1, Len(s))

\* np.percentile(bootstat, q) with linear interpolation, q in per mille, of
\* the values srt (kept in ascending order, as np.percentile sorts them);
\* the result is in thousandths of the unit of srt
Percentile(srt, q) ==
    LET s == srt
        pos == q * (Len(s) - 1)
        lo == pos \div 1000
        frac == pos % 1000
    IN  IF lo + 2 > Len(s)
        THEN 1000 * srt[lo + 1]
        ELSE 1000 * srt[lo + 1] + frac * (srt[lo + 2] - srt[lo + 1])

\* pg.compute_bootci(x, func="mean", method="per"): the 2.5 and 97.5
\* percentiles of the resample means; sums is the resample sums drawn,
\* n the sample size, so the bounds are fractions num / den
BootCI(sums, n) ==
    [lo |-> Percentile(sums, 25), hi |-> Percentile(sums, 975), den |-> 1000 * n]

\* a file is <<>> until it is written and <<content>> after
NoFiles == [desc |-> <<>>, stat |-> <<>>, png |-> <<>>, pdf |-> <<>>]

Chi2Idle ==
    /\ chi2_in = <<>>
    /\ chi2_run = 0
    /\ chi2_pc = "idle"
    /\ chi2_df = <<>>
    /\ chi2_boot = <<>>
    /\ chi2_ci = <<>>
    /\ chi2_files = <<>>

\* the instants of the input rows: around the window's ends and the anchor
Instants ==
    {Instant(start_dt.day - 1, LastSec, LastNano), start_dt,
     Instant(covid_dt.day - 1, LastSec, LastNano), covid_dt,
     end_dt, Instant(end_dt.day, 0, 1)}

\* raw LIWC nightmare scores
Scores == {0, 2}

\* lines 40-42: the filtered, preprocessed table.  Two families of input:
\* rows at any of the instants, each holding a nightmare; and rows with any
\* score, at the window's start (pre) or at the anchor (post)
InitChi2 ==
    /\ \E n \in 0..MaxPosts :
        \/ \E ts \in [1..n -> Instants] :
            chi2_in = [i \in 1..n |-> [timestamp |-> ts[i], nightmare |-> 2]]
        \/ \E ts \in [1..n -> {start_dt, covid_dt}], nm \in [1..n -> Scores] :
            chi2_in = [i \in 1..n |-> [timestamp |-> ts[i], nightmare |-> nm[i]]]
    /\ chi2_run = 1
    /\ chi2_pc = "label"
    /\ chi2_df = <<>>
    /\ chi2_boot = <<>>
    /\ chi2_ci = <<>>
    /\ chi2_files = [r \in {1, 2} |-> NoFiles]

\* lines 49-54
Chi2Label ==
    /\ chi2_pc = "label"
    /\ chi2_df' = LabelWindow(chi2_in)
    /\ chi2_pc' = "stats"
    /\ UNCHANGED <<chi2_in, chi2_run, chi2_boot, chi2_ci, chi2_files>>
    /\ UNCHANGED notChi2Vars

\* lines 57-68: the test and the observed percentages.  obs[1] needs a
\* nightmare in the window; the two-element CI columns of lines 73-74 need
\* both PostCovid rows, and the bootstrap needs a non-empty sample.
Chi2Stats ==
    /\ chi2_pc = "stats"
    /\ chi2_pc' = IF \A r \in Range(chi2_df) : r.nightmare = 0
                  THEN "KeyError"
                  ELSE IF DOMAIN Observed(chi2_df) # {FALSE, TRUE}
                       THEN "ValueError"
                       ELSE "boot_pre"
    /\ UNCHANGED <<chi2_in, chi2_run, chi2_df, chi2_boot, chi2_ci, chi2_files>>
    /\ UNCHANGED notChi2Vars

\* one bootstrap resample; compute_bootci is called without seed, so the
\* generator is seeded from fresh entropy and any index vector can be drawn
Chi2Resample ==
    /\ chi2_pc \in {"boot_pre", "boot_post"}
    /\ Len(chi2_boot) < NBoot
    /\ \E s \in ResampleSums(NmVals(chi2_df, chi2_pc = "boot_post")) :
        chi2_boot' = SortInsert(s, chi2_boot)
    /\ UNCHANGED <<chi2_in, chi2_run, chi2_pc, chi2_df, chi2_ci, chi2_files>>
    /\ UNCHANGED notChi2Vars

\* lines 70-71: the percentile interval of one group
Chi2BootCI ==
    /\ chi2_pc \in {"boot_pre", "boot_post"}
    /\ Len(chi2_boot) = NBoot
    /\ chi2_ci' = Append(chi2_ci,
                         BootCI(chi2_boot, Len(NmVals(chi2_df, chi2_pc = "boot_post"))))
    /\ chi2_boot' = <<>>
    /\ chi2_pc' = IF chi2_pc = "boot_pre" THEN "boot_post" ELSE "write_desc"
    /\ UNCHANGED <<chi2_in, chi2_run, chi2_df, chi2_files>>
    /\ UNCHANGED notChi2Vars

\* lines 72-83: desc.to_csv
Chi2WriteDesc ==
    /\ chi2_pc = "write_desc"
    /\ chi2_files' = [chi2_files EXCEPT ![chi2_run].desc =
                        <<[obs |-> Observed(chi2_df), pre_ci |-> chi2_ci[1], post_ci |-> chi2_ci[2]]>>]
    /\ chi2_pc' = "write_stat"
    /\ UNCHANGED <<chi2_in, chi2_run, chi2_df, chi2_boot, chi2_ci>>
    /\ UNCHANGED notChi2Vars

\* lines 80-84: stat.to_csv
Chi2WriteStat ==
    /\ chi2_pc = "write_stat"
    /\ chi2_files' = [chi2_files EXCEPT ![chi2_run].stat = <<[n |-> Len(chi2_df)]>>]
    /\ chi2_pc' = "plot"
    /\ UNCHANGED <<chi2_in, chi2_run, chi2_df, chi2_boot, chi2_ci>>
    /\ UNCHANGED notChi2Vars

\* lines 92-142: the bar plot, saved as png and pdf
Chi2Plot ==
    /\ chi2_pc = "plot"
    /\ chi2_files' = [chi2_files EXCEPT ![chi2_run].png = chi2_files[chi2_run].desc,
                                        ![chi2_run].pdf = chi2_files[chi2_run].desc]
    /\ chi2_pc' = "done"
    /\ UNCHANGED <<chi2_in, chi2_run, chi2_df, chi2_boot, chi2_ci>>
    /\ UNCHANGED notChi2Vars

\* the script is run again on the same input file
Chi2Rerun ==
    /\ chi2_pc = "done"
    /\ chi2_run = 1
    /\ chi2_run' = 2
    /\ chi2_pc' = "label"
    /\ chi2_df' = <<>>
    /\ chi2_boot' = <<>>
    /\ chi2_ci' = <<>>
    /\ UNCHANGED <<chi2_in, chi2_files>>
    /\ UNCHANGED notChi2Vars

NextChi2 ==
    \/ Chi2Label
    \/ Chi2Stats
    \/ Chi2Resample
    \/ Chi2BootCI
    \/ Chi2WriteDesc
    \/ Chi2WriteStat
    \/ Chi2Plot
    \/ Chi2Rerun

-----------------------------------------------------------------------------
(* anxiety_corr.py                                                         *)

\* bound: weekly buckets between start_date and end_date
MaxWeeks == 3

\* bound: largest weekly mean, in units of the smallest one
MaxVal == 2

\* weekly["Dreams"].shift(1)
Lag == 1

\* xlim = 0.35, ylim = 0.6, ylim += 0.2 for posts == "wake", in hundredths
XLim == 35

YLim == 60

YLimWakeExtra == 20

\* A float is [k, n, d]: a number n / d (d > 0), NaN, or +infinity.
Num(n) == [k |-> "num", n |-> n, d |-> 1]

NaN == [k |-> "nan", n |-> 0, d |-> 1]

Inf == [k |-> "inf", n |-> 1, d |-> 0]

\* pd.isna
IsNa(x) == x.k = "nan"

Abs(n) == IF n < 0 THEN -n ELSE n

\* x.abs().ge(lim) for lim in hundredths; a comparison with NaN is False
AbsGe(x, lim) ==
    CASE x.k = "nan" -> FALSE
      [] x.k = "inf" -> TRUE
      [] OTHER -> 100 * Abs(x.n) >= lim * x.d

Subreddits == {"Dreams", "news"}

\* the weeks in which some subreddit has a bucket, ascending
RECURSIVE WeeksFrom(_, _)
WeeksFrom(g, w) ==
    IF w > MaxWeeks THEN <<>>
    ELSE (IF \E s \in Subreddits : ~IsNa(g[s][w]) THEN <<w>> ELSE <<>>)
         \o WeeksFrom(g, w + 1)

\* lines 67-76: groupby(...).mean().sort_index().unstack(level=0)
\* .dropna(axis=1).dropna(axis=0).droplevel(axis=1, level=0).
\* g[s][w] is the mean of subreddit s in week w (covid for news, emo_anx for
\* Dreams), NaN where s has no row in w.  unstack makes a row per week in
\* which either subreddit has rows; dropna(axis=1) drops a subreddit's
\* column when any of these rows lacks it (and the all-NaN columns of the
\* measure the other file holds), after which dropna(axis=0) finds no NaN.
WeeklyTable(g) ==
    LET weeks == WeeksFrom(g, 1)
        cols == {s \in Subreddits :
                    /\ \E w \in 1..MaxWeeks : ~IsNa(g[s][w])
                    /\ \A i \in DOMAIN weeks : ~IsNa(g[s][weeks[i]])}
    IN  [cols |-> cols,
         rows |-> [i \in DOMAIN weeks |->
                    [f \in cols \cup {"timestamp"} |->
                        IF f = "timestamp" THEN weeks[i] ELSE g[f][weeks[i]]]]]

\* Series.shift(k): the value k rows up, NaN for the first k rows
Shift(rows, col, k) ==
    [i \in DOMAIN rows |-> IF i - k >= 1 THEN rows[i - k][col] ELSE NaN]

\* faulty variant: a zero or missing predecessor gives a percent change of 0
PctOfZeroFilled(prev, cur) ==
    IF IsNa(prev) \/ IsNa(cur) \/ prev.n = 0
    THEN Num(0)
    ELSE [k |-> "num", n |-> cur.n - prev.n, d |-> prev.n]

\* one element of pct_change(): cur / prev - 1 in floating point, so x / 0 is
\* infinite and 0 / 0 is NaN.  (The values are whole multiples of the unit.)
PctOf(prev, cur) ==
    IF IsNa(prev) \/ IsNa(cur) THEN NaN
    ELSE IF prev.n = 0
         THEN (IF cur.n = 0 THEN NaN ELSE Inf)
         ELSE [k |-> "num", n |-> cur.n - prev.n, d |-> prev.n]

\* DataFrame.pct_change() of one column.  No column of weekly holds a NaN
\* after a number, so the padding pct_change may apply first changes nothing.
PctChange(rows, col) ==
    [i \in DOMAIN rows |-> PctOf(Shift(rows, col, 1)[i], rows[i][col])]

PctName(col) ==
    CASE col = "news" -> "news_pctchange"
      [] col = "Dreams" -> "Dreams_pctchange"
      [] col = "nextDreams" -> "nextDreams_pctchange"

ValueCols == {"news", "Dreams", "nextDreams"}

\* line 79: weekly["nextDreams"] = weekly["Dreams"].shift(1)
WithNextDreams(t) ==
    [cols |-> t.cols \cup {"nextDreams"},
     rows |-> [i \in DOMAIN t.rows |->
                [f \in DOMAIN t.rows[i] \cup {"nextDreams"} |->
                    IF f = "nextDreams" THEN Shift(t.rows, "Dreams", Lag)[i]
                    ELSE t.rows[i][f]]]]

\* lines 82-88: pct = weekly.pct_change(); weekly.join(pct, rsuffix=...);
\* weekly["week"] = range(len(weekly))
WithPctChange(t) ==
    LET pcts == {PctName(c) : c \in t.cols} IN
    [cols |-> t.cols \cup pcts \cup {"week"},
     rows |-> [i \in DOMAIN t.rows |->
                [f \in DOMAIN t.rows[i] \cup pcts \cup {"week"} |->
                    CASE f = "week" -> i - 1
                      [] \E c \in t.cols : f = PctName(c) ->
                            PctChange(t.rows, CHOOSE c \in t.cols : f = PctName(c))[i]
                      [] OTHER -> t.rows[i][f]]]]

\* faulty variant: no row is removed
RemoveNaKeepAll(rows, x, y) == rows

\* pingouin remove_na(x, y, paired=True): the rows where neither is NaN
RemoveNa(rows, x, y) ==
    SelectSeq(rows, LAMBDA r : ~IsNa(r[x]) /\ ~IsNa(r[y]))

\* weekly.dropna()
DropNaRows(t) ==
    SelectSeq(t.rows, LAMBDA r : \A f \in DOMAIN r : f = "timestamp" \/ f = "week" \/ ~IsNa(r[f]))

\* to_csv(na_rep=...) of one float: a written field is [text, n, d], text
\* being the literal text of a missing or infinite value and "%g" for the
\* number n / d
FormatFloat(x, na_rep) ==
    CASE x.k = "nan" -> [text |-> na_rep, n |-> 0, d |-> 1]
      [] x.k = "inf" -> [text |-> "inf", n |-> 1, d |-> 0]
      [] OTHER -> [text |-> "%g", n |-> x.n, d |-> x.d]

\* to_csv of an integer or a date
FormatInt(i) == [text |-> "%d", n |-> i, d |-> 1]

\* DataFrame.to_csv: na_rep defaults to the empty string
DefaultNaRep == ""

\* DataFrame.to_csv(path, na_rep=na_rep, sep="\t"): a line per row, a field
\* per column; ints names the integer and date columns
ToCsv(rows, ints, na_rep) ==
    [i \in DOMAIN rows |->
        [f \in DOMAIN rows[i] |->
            IF f \in ints THEN FormatInt(rows[i][f])
            ELSE FormatFloat(rows[i][f], na_rep)]]

NoCorrFiles == [stat |-> <<>>, vals |-> <<>>, png |-> <<>>, pdf |-> <<>>]

EmptyTable == [cols |-> {}, rows |-> <<>>]

CorrIdle ==
    /\ corr_posts = NA
    /\ corr_grouped = <<>>
    /\ corr_pc = "idle"
    /\ corr_weekly = EmptyTable
    /\ corr_n = 0
    /\ corr_files = NoCorrFiles

Cells == {NaN} \cup {Num(v) : v \in 0..MaxVal}

\* lines 28-71: the arguments and the weekly means of the two subreddits
InitCorr ==
    /\ corr_posts \in FlairModes
    /\ \E dr \in [1..MaxWeeks -> Cells], nw \in [1..MaxWeeks -> Cells] :
        corr_grouped = [s \in Subreddits |-> IF s = "Dreams" THEN dr ELSE nw]
    /\ corr_pc = "aggregate"
    /\ corr_weekly = EmptyTable
    /\ corr_n = 0
    /\ corr_files = NoCorrFiles

\* lines 67-76
CorrAggregate ==
    /\ corr_pc = "aggregate"
    /\ corr_weekly' = WeeklyTable(corr_grouped)
    /\ corr_pc' = "shift"
    /\ UNCHANGED <<corr_posts, corr_grouped, corr_n, corr_files>>
    /\ UNCHANGED notCorrVars

\* line 79; weekly["Dreams"] raises KeyError when the column was dropped
CorrShift ==
    /\ corr_pc = "shift"
    /\ IF "Dreams" \in corr_weekly.cols
       THEN /\ corr_weekly' = WithNextDreams(corr_weekly)
            /\ corr_pc' = "pct_change"
       ELSE /\ corr_weekly' = corr_weekly
            /\ corr_pc' = "KeyError"
    /\ UNCHANGED <<corr_posts, corr_grouped, corr_n, corr_files>>
    /\ UNCHANGED notCorrVars

\* lines 82-88
CorrPctChange ==
    /\ corr_pc = "pct_change"
    /\ corr_weekly' = WithPctChange(corr_weekly)
    /\ corr_pc' = "corr"
    /\ UNCHANGED <<corr_posts, corr_grouped, corr_n, corr_files>>
    /\ UNCHANGED notCorrVars

\* lines 91-96: pg.corr on the rows remove_na leaves; weekly["news_pctchange"]
\* raises KeyError when the news column was dropped
CorrStat ==
    /\ corr_pc = "corr"
    /\ IF "news_pctchange" \in corr_weekly.cols
       THEN /\ corr_n' = Len(RemoveNa(corr_weekly.rows, "news_pctchange", "nextDreams_pctchange"))
            /\ corr_pc' = "write_stat"
       ELSE /\ corr_n' = corr_n
            /\ corr_pc' = "KeyError"
    /\ UNCHANGED <<corr_posts, corr_grouped, corr_weekly, corr_files>>
    /\ UNCHANGED notCorrVars

\* line 99: stat.to_csv
CorrWriteStat ==
    /\ corr_pc = "write_stat"
    /\ corr_files' = [corr_files EXCEPT !.stat = <<[n |-> corr_n]>>]
    /\ corr_pc' = "write_vals"
    /\ UNCHANGED <<corr_posts, corr_grouped, corr_weekly, corr_n>>
    /\ UNCHANGED notCorrVars

\* line 100: weekly.to_csv(export_path_vals, index_label="week", sep="\t",
\* date_format="%Y-%m-%d"), no na_rep
CorrWriteVals ==
    /\ corr_pc = "write_vals"
    /\ corr_files' = [corr_files EXCEPT
                        !.vals = <<ToCsv(corr_weekly.rows, {"timestamp", "week"}, DefaultNaRep)>>]
    /\ corr_pc' = "assert_x"
    /\ UNCHANGED <<corr_posts, corr_grouped, corr_weekly, corr_n>>
    /\ UNCHANGED notCorrVars

\* line 156: assert not weekly["news_pctchange"].abs().ge(xlim).any()
CorrAssertX ==
    /\ corr_pc = "assert_x"
    /\ corr_pc' = IF \E r \in Range(corr_weekly.rows) : AbsGe(r["news_pctchange"], XLim)
                  THEN "AssertionError"
                  ELSE "assert_y"
    /\ UNCHANGED <<corr_posts, corr_grouped, corr_weekly, corr_n, corr_files>>
    /\ UNCHANGED notCorrVars

\* lines 153-157: assert not weekly["nextDreams_pctchange"].abs().ge(ylim).any()
CorrAssertY ==
    /\ corr_pc = "assert_y"
    /\ LET ylim == IF corr_posts = "wake" THEN YLim + YLimWakeExtra ELSE YLim IN
       corr_pc' = IF \E r \in Range(corr_weekly.rows) : AbsGe(r["nextDreams_pctchange"], ylim)
                  THEN "AssertionError"
                  ELSE "colorbar"
    /\ UNCHANGED <<corr_posts, corr_grouped, corr_weekly, corr_n, corr_files>>
    /\ UNCHANGED notCorrVars

\* lines 112, 168-169: vmax = weekly.dropna()["week"].max() is NaN when no
\* row is complete, and int(vmax) then raises ValueError
CorrColorbar ==
    /\ corr_pc = "colorbar"
    /\ corr_pc' = IF DropNaRows(corr_weekly) = <<>> THEN "ValueError" ELSE "savefig"
    /\ UNCHANGED <<corr_posts, corr_grouped, corr_weekly, corr_n, corr_files>>
    /\ UNCHANGED notCorrVars

\* lines 180-181: plt.savefig, png then pdf
CorrSavefig ==
    /\ corr_pc = "savefig"
    /\ \/ /\ corr_files.png = <<>>
          /\ corr_files' = [corr_files EXCEPT !.png = <<"plot">>]
          /\ corr_pc' = corr_pc
       \/ /\ corr_files.png # <<>>
          /\ corr_files' = [corr_files EXCEPT !.pdf = <<"plot">>]
          /\ corr_pc' = "done"
    /\ UNCHANGED <<corr_posts, corr_grouped, corr_weekly, corr_n>>
    /\ UNCHANGED notCorrVars

NextCorr ==
    \/ CorrAggregate
    \/ CorrShift
    \/ CorrPctChange
    \/ CorrStat
    \/ CorrWriteStat
    \/ CorrWriteVals
    \/ CorrAssertX
    \/ CorrAssertY
    \/ CorrColorbar
    \/ CorrSavefig

-----------------------------------------------------------------------------
(* anxiety_regr.py                                                         *)

\* Dates are whole days since {year}-03-11 (daily buckets start at midnight
\* UTC, as covid_dt does).
CovidDay == covid_dt.day

StartDay == start_dt.day

EndDay == end_dt.day

\* first and last day with a post, and the days between that may have none
FirstDays == {StartDay - 2, StartDay, CovidDay - 4, CovidDay - 3, CovidDay - 1, CovidDay, CovidDay + 1}

LastDays == {CovidDay - 3, CovidDay - 1, CovidDay, CovidDay + 1, CovidDay + 2, EndDay, EndDay + 2}

GapDays == {CovidDay - 2, CovidDay - 1, CovidDay, CovidDay + 1}

\* lines 55-60: groupby(pd.Grouper(key="timestamp", freq="D")).mean(): a row
\* for every day from the first post to the last, NaN on a day without posts
DailyMeans(first, last, gaps) ==
    [i \in 1..(last - first + 1) |->
        [date |-> first + i - 1,
         emo_anx |-> IF (first + i - 1) \in gaps THEN NaN ELSE Num(1)]]

\* line 63: daily["emo_anx"].shift(-1)
ShiftBack(rows) ==
    [i \in DOMAIN rows |->
        [rows[i] EXCEPT !.emo_anx = IF i + 1 <= Len(rows) THEN rows[i + 1].emo_anx ELSE NaN]]

\* faulty variant: date.ge(covid_dt)
CovidIndicatorInclusive(date) == IF date >= CovidDay THEN 1 ELSE 0

\* line 76: daily["date"].gt(covid_dt).astype(int)
CovidIndicator(date) == IF date > CovidDay THEN 1 ELSE 0

\* lines 63-77: shift, window, and the three regressors
DailyTable(means) ==
    LET win == SelectSeq(ShiftBack(means), LAMBDA r : StartDay <= r.date /\ r.date <= EndDay)
    IN  [i \in DOMAIN win |->
            [date |-> win[i].date,
             emo_anx |-> win[i].emo_anx,
             Time |-> i,
             Covid |-> CovidIndicator(win[i].date),
             TimeCovid |-> SumSeq([j \in 1..i |-> CovidIndicator(win[j].date)])]]

\* the rows the formula interface fits on: those with an emo_anx value
Usable(rows) == SelectSeq(rows, LAMBDA r : ~IsNa(r.emo_anx))

\* smf.ols(...).fit(): least squares by pseudo-inverse, which solves a
\* rank-deficient design as well; only an empty design raises
OlsFit(rows) == IF Usable(rows) = <<>> THEN "ValueError" ELSE "ok"

\* line 88: daily.set_index("date").loc[start_dt:covid_dt]
PreCovid(rows) == SelectSeq(rows, LAMBDA r : StartDay <= r.date /\ r.date <= CovidDay)

\* line 91: daily.set_index("date").loc[covid_dt:]
PostCovid(rows) == SelectSeq(rows, LAMBDA r : CovidDay <= r.date)

\* the regressors of the design matrix whose column is constant over rows
\* (collinear with the intercept)
ConstantRegressors(rows) ==
    {c \in {"Time", "Covid", "TimeCovid"} : \A i, j \in DOMAIN rows : rows[i][c] = rows[j][c]}

\* line 66: daily.rolling(window=7, center=True)["emo_anx"].mean() over the
\* shifted series before windowing: missing unless all seven days hold a value
DailySmooth(rows) ==
    [i \in DOMAIN rows |->
        [date |-> rows[i].date,
         emo_anx |-> IF /\ i - 3 >= 1
                        /\ i + 3 <= Len(rows)
                        /\ \A j \in (i - 3)..(i + 3) : ~IsNa(rows[j].emo_anx)
                     THEN rows[i].emo_anx
                     ELSE NaN]]

\* the value of column emo_anx of rows at date, NaN when rows has no such date
ValueAt(rows, date) ==
    IF \E i \in DOMAIN rows : rows[i].date = date
    THEN rows[CHOOSE i \in DOMAIN rows : rows[i].date = date].emo_anx
    ELSE NaN

\* lines 95-102: model_vals = obs.join(pred).join(dat).join(datsmooth), left
\* joins on the rows of observed, which are the rows the model was fitted on.
\* Columns pred, data and datasmooth; every daily mean being the same value,
\* the counterfactual line predicts that value.
ModelVals(daily, means, pred) ==
    LET fitted == Usable(daily) IN
    [i \in DOMAIN fitted |->
        [date |-> fitted[i].date,
         pred |-> IF fitted[i].date \in Range(pred) THEN fitted[i].emo_anx ELSE NaN,
         data |-> fitted[i].emo_anx,
         datasmooth |-> ValueAt(DailySmooth(ShiftBack(means)), fitted[i].date)]]

NoRegrFiles == [modl |-> <<>>, vals |-> <<>>, stat |-> <<>>, png |-> <<>>, pdf |-> <<>>]

RegrIdle ==
    /\ regr_means = <<>>
    /\ regr_pc = "idle"
    /\ regr_daily = <<>>
    /\ regr_pre = <<>>
    /\ regr_pred = <<>>
    /\ regr_files = NoRegrFiles

\* lines 50-60
InitRegr ==
    /\ \E first \in FirstDays, last \in LastDays :
        /\ first <= last
        /\ \E gaps \in SUBSET (GapDays \cap (first + 1)..(last - 1)) :
            regr_means = DailyMeans(first, last, gaps)
    /\ regr_pc = "daily"
    /\ regr_daily = <<>>
    /\ regr_pre = <<>>
    /\ regr_pred = <<>>
    /\ regr_files = NoRegrFiles

\* lines 63-77
RegrDaily ==
    /\ regr_pc = "daily"
    /\ regr_daily' = DailyTable(regr_means)
    /\ regr_pc' = "fit"
    /\ UNCHANGED <<regr_means, regr_pre, regr_pred, regr_files>>
    /\ UNCHANGED notRegrVars

\* lines 80-85: the model over the whole window
RegrFit ==
    /\ regr_pc = "fit"
    /\ regr_pc' = IF OlsFit(regr_daily) = "ok" THEN "fit_precovid" ELSE OlsFit(regr_daily)
    /\ UNCHANGED <<regr_means, regr_daily, regr_pre, regr_pred, regr_files>>
    /\ UNCHANGED notRegrVars

\* lines 88-90: the counterfactual model over the pre-anchor rows
RegrFitPreCovid ==
    /\ regr_pc = "fit_precovid"
    /\ regr_pre' = PreCovid(regr_daily)
    /\ regr_pc' = IF OlsFit(PreCovid(regr_daily)) = "ok"
                  THEN "predict"
                  ELSE OlsFit(PreCovid(regr_daily))
    /\ UNCHANGED <<regr_means, regr_daily, regr_pred, regr_files>>
    /\ UNCHANGED notRegrVars

\* lines 91-92: a prediction for every row from the anchor on
RegrPredict ==
    /\ regr_pc = "predict"
    /\ regr_pred' = [i \in DOMAIN PostCovid(regr_daily) |-> PostCovid(regr_daily)[i].date]
    /\ regr_pc' = "write"
    /\ UNCHANGED <<regr_means, regr_daily, regr_pre, regr_files>>
    /\ UNCHANGED notRegrVars

\* lines 105-108: model.save, model_vals.to_csv, the summary text
RegrWrite ==
    /\ regr_pc = "write"
    /\ \/ /\ regr_files.modl = <<>>
          /\ regr_files' = [regr_files EXCEPT !.modl = <<"model">>]
          /\ regr_pc' = regr_pc
       \/ /\ regr_files.modl # <<>>
          /\ regr_files.vals = <<>>
          /\ regr_files' = [regr_files EXCEPT
                                !.vals = <<ToCsv(ModelVals(regr_daily, regr_means, regr_pred), {"date"}, "NA")>>]
          /\ regr_pc' = regr_pc
       \/ /\ regr_files.vals # <<>>
          /\ regr_files' = [regr_files EXCEPT !.stat = <<"summary">>]
          /\ regr_pc' = "savefig"
    /\ UNCHANGED <<regr_means, regr_daily, regr_pre, regr_pred>>
    /\ UNCHANGED notRegrVars

\* lines 203-204: plt.savefig, png then pdf
RegrSavefig ==
    /\ regr_pc = "savefig"
    /\ \/ /\ regr_files.png = <<>>
          /\ regr_files' = [regr_files EXCEPT !.png = <<"plot">>]
          /\ regr_pc' = regr_pc
       \/ /\ regr_files.png # <<>>
          /\ regr_files' = [regr_files EXCEPT !.pdf = <<"plot">>]
          /\ regr_pc' = "done"
    /\ UNCHANGED <<regr_means, regr_daily, regr_pre, regr_pred>>
    /\ UNCHANGED notRegrVars

NextRegr ==
    \/ RegrDaily
    \/ RegrFit
    \/ RegrFitPreCovid
    \/ RegrPredict
    \/ RegrWrite
    \/ RegrSavefig

-----------------------------------------------------------------------------
(* Specifications: one per script                                          *)

StartFilter == Chi2Idle /\ CorrIdle /\ RegrIdle /\ InitFilter

SpecFilter == StartFilter /\ [][NextFilter]_vars

StartChi2 == FilterIdle /\ CorrIdle /\ RegrIdle /\ InitChi2

SpecChi2 == StartChi2 /\ [][NextChi2]_vars

StartCorr == FilterIdle /\ Chi2Idle /\ RegrIdle /\ InitCorr

SpecCorr == StartCorr /\ [][NextCorr]_vars

StartRegr == FilterIdle /\ Chi2Idle /\ CorrIdle /\ InitRegr

SpecRegr == StartRegr /\ [][NextRegr]_vars

-----------------------------------------------------------------------------
(* Claims about utils.py                                                   *)

\* a row without its index label, and the records of a table
Record(r) == [f \in DOMAIN r \ {"_idx"} |-> r[f]]

Records(rows) == {Record(rows[i]) : i \in DOMAIN rows}

PreprocessReturned == call.fn = "preprocess_subreddit" /\ res.err = "none"

FilterReturned == call.fn = "filter_flair" /\ res.err = "none"

\* C2: the table preprocess_subreddit returns holds no row whose text column
\* is missing or a deletion sentinel and no two rows with the same text, and
\* every row it holds is the first input row with that text.
C2_PreprocessValidFirst ==
    PreprocessReturned =>
        LET c == call.arg
            out == res.out.rows
            inp == data.rows
        IN  /\ \A i \in DOMAIN out :
                /\ out[i][c] # NA
                /\ out[i][c] \notin Sentinels
                /\ \A j \in DOMAIN out : j # i => out[j][c] # out[i][c]
                /\ \E k \in DOMAIN inp :
                    /\ Record(inp[k]) = Record(out[i])
                    /\ \A j \in 1..(k - 1) : inp[j][c] # out[i][c]

\* C2 witness: an input with a sentinel and a repeated text, one row returned
C2_Witness ==
    /\ PreprocessReturned
    /\ Len(res.out.rows) = 1
    /\ \E i, j \in DOMAIN data.rows :
        /\ i < j
        /\ data.rows[i][call.arg] = data.rows[j][call.arg]
        /\ data.rows[i][call.arg] \notin Sentinels \cup {NA}

ComplementMode(posts) == IF posts = "dreams" THEN "wake" ELSE "dreams"

\* C3: the rows filter_flair selects for "dreams" and for "wake" are disjoint
\* and together are the whole table (a missing flair is on exactly one side);
\* after preprocess_subreddit on each side the two sides are still disjoint
\* and every row that survives preprocess_subreddit on the whole table is on
\* one of them.
C3_FlairPartition ==
    FilterReturned =>
        LET side == res.out
            other == filter_flair(data, ComplementMode(call.arg)).out
        IN  /\ Records(side.rows) \cap Records(other.rows) = {}
            /\ Records(side.rows) \cup Records(other.rows) = Records(data.rows)
            /\ Len(side.rows) + Len(other.rows) = Len(data.rows)
            /\ \A c \in TextColumns :
                LET ps == Records(preprocess_subreddit(side, c).out.rows)
                    po == Records(preprocess_subreddit(other, c).out.rows)
                    pv == Records(preprocess_subreddit(data, c).out.rows)
                IN  /\ ps \cap po = {}
                    /\ pv \subseteq ps \cup po

\* C3 witness: a row without flair, both sides non-empty before and after
\* preprocessing
C3_Witness ==
    /\ FilterReturned
    /\ \E i \in DOMAIN data.rows : data.rows[i].link_flair_text = NA
    /\ LET other == filter_flair(data, ComplementMode(call.arg)).out IN
        \E c \in TextColumns :
            /\ preprocess_subreddit(res.out, c).out.rows # <<>>
            /\ preprocess_subreddit(other, c).out.rows # <<>>

\* C4: preprocess_subreddit applied to the table it returned returns that
\* table again, rows in the same order.
C4_PreprocessIdempotent ==
    PreprocessReturned => preprocess_subreddit(res.out, call.arg).out = res.out

\* C4 witness: a call that dropped some rows and kept some
C4_Witness ==
    /\ PreprocessReturned
    /\ res.out.rows # <<>>
    /\ Len(res.out.rows) < Len(data.rows)

\* C12: filter_flair called with a mode other than "dreams" and "wake" fails
\* with an InvalidCategoryError and returns no filtered records.
C12_InvalidCategoryError ==
    (call.fn = "filter_flair" /\ call.arg \notin FlairModes) =>
        /\ res.err = "InvalidCategoryError"
        /\ res.out = NA

\* C13: a call of filter_flair or preprocess_subreddit leaves the caller's
\* table as it was: the same rows, the same columns, the same values.
C13_NoSideEffects ==
    [][(call.fn = "none" /\ call'.fn # "none") => data' = data]_vars

-----------------------------------------------------------------------------
(* Claims about nightmares_chi2.py                                         *)

InWindow(t) == Leq(start_dt, t) /\ Leq(t, end_dt)

\* C5: once the table is labelled, its rows are exactly the input rows inside
\* [anchor - 30 days, anchor + 30 days], and a row is labelled post
\* (PostCovid = TRUE) exactly when its timestamp is at or after the anchor,
\* so the anchor instant is post and one nanosecond before it is pre.
C5_PostIffAtOrAfterAnchor ==
    chi2_pc \notin {"idle", "label"} =>
        /\ Len(chi2_df) = Cardinality({i \in DOMAIN chi2_in : InWindow(chi2_in[i].timestamp)})
        /\ \A i \in DOMAIN chi2_in :
            InWindow(chi2_in[i].timestamp) =>
                \E j \in DOMAIN chi2_df : chi2_df[j].timestamp = chi2_in[i].timestamp
        /\ \A j \in DOMAIN chi2_df :
            /\ InWindow(chi2_df[j].timestamp)
            /\ chi2_df[j].PostCovid \in BOOLEAN
            /\ chi2_df[j].PostCovid <=> Leq(covid_dt, chi2_df[j].timestamp)

\* C5 witness: a row at the anchor labelled post beside a row one nanosecond
\* earlier labelled pre
C5_Witness ==
    /\ chi2_pc = "stats"
    /\ \E i, j \in DOMAIN chi2_df :
        /\ chi2_df[i].timestamp = covid_dt
        /\ chi2_df[i].PostCovid
        /\ chi2_df[j].timestamp = Instant(covid_dt.day - 1, LastSec, LastNano)
        /\ ~chi2_df[j].PostCovid

\* C10: two runs of nightmares_chi2 on the same input write the same files,
\* bootstrap confidence intervals included.
C10_RunsAgree ==
    (chi2_run = 2 /\ chi2_pc = "done") => chi2_files[1] = chi2_files[2]

-----------------------------------------------------------------------------
(* Claims about anxiety_corr.py                                            *)

ErrorKinds == {"KeyError", "ValueError", "AssertionError"}

\* C1: no script run is in a state where an error has been raised and a
\* stats or values file has already been written.
C1_AllOrNothing ==
    /\ corr_pc \in ErrorKinds => corr_files = NoCorrFiles
    /\ chi2_pc \in ErrorKinds => chi2_files[chi2_run] = NoFiles
    /\ regr_pc \in ErrorKinds => regr_files = NoRegrFiles

\* lines 67-76 have run
Aggregated == corr_pc \notin {"idle", "aggregate"}

\* the weeks in which both subreddits have posts
BothWeeks == {w \in 1..MaxWeeks : \A s \in Subreddits : ~IsNa(corr_grouped[s][w])}

\* C14: the weekly table is the inner join of the two weekly series on the
\* bucket: its rows are exactly the weeks in which both subreddits have
\* posts (a week with posts in only one is dropped as a row), and each row
\* holds both values.
C14_InnerJoinOnBucket ==
    Aggregated =>
        /\ {corr_weekly.rows[i]["timestamp"] : i \in DOMAIN corr_weekly.rows} = BothWeeks
        /\ \A i \in DOMAIN corr_weekly.rows : \A s \in Subreddits :
            /\ s \in DOMAIN corr_weekly.rows[i]
            /\ corr_weekly.rows[i][s] = corr_grouped[s][corr_weekly.rows[i]["timestamp"]]

\* line 79 has run
Shifted == "nextDreams" \in corr_weekly.cols

\* C15: the shifted dream value of a weekly bucket is the dream value of the
\* bucket exactly Lag weeks before it, and is missing when the table has no
\* such bucket, also when a calendar week is absent from the table.
C15_ShiftByOneWeek ==
    Shifted =>
        \A i \in DOMAIN corr_weekly.rows :
            LET t == corr_weekly.rows[i]["timestamp"]
                before == {j \in DOMAIN corr_weekly.rows :
                                corr_weekly.rows[j]["timestamp"] = t - Lag}
            IN  IF before = {}
                THEN IsNa(corr_weekly.rows[i]["nextDreams"])
                ELSE \A j \in before :
                        corr_weekly.rows[i]["nextDreams"] = corr_weekly.rows[j]["Dreams"]

\* the percent-change columns have been computed
PctDone == "week" \in corr_weekly.cols

\* pg.corr has returned
CorrRan == PctDone /\ (corr_pc \in ErrorKinds => corr_files.stat # <<>>) /\ corr_pc # "corr"

\* C6: the percent change of the first weekly row is missing (so not zero)
\* in every column.
C6_FirstPctMissing ==
    (PctDone /\ corr_weekly.rows # <<>>) =>
        \A c \in ValueCols \cap corr_weekly.cols :
            IsNa(corr_weekly.rows[1][PctName(c)])

\* C6 witness: percent changes computed over a table of several rows whose
\* first row holds non-zero values
C6_Witness ==
    /\ PctDone
    /\ Len(corr_weekly.rows) >= 2
    /\ {"news", "Dreams"} \subseteq corr_weekly.cols
    /\ corr_weekly.rows[1]["news"].n > 0
    /\ corr_weekly.rows[1]["Dreams"].n > 0

\* C7: from the second row on, the percent change is
\* (value[t] - value[t-1]) / value[t-1], and it is missing whenever
\* value[t-1] is zero or either value is missing; rows with a missing percent
\* change are not counted by the correlation.
C7_PctMissingOnZero ==
    PctDone =>
        /\ \A i \in 2..Len(corr_weekly.rows) :
            \A c \in ValueCols \cap corr_weekly.cols :
                LET prev == corr_weekly.rows[i - 1][c]
                    cur == corr_weekly.rows[i][c]
                    pct == corr_weekly.rows[i][PctName(c)]
                IN  IF IsNa(prev) \/ IsNa(cur) \/ prev.n = 0
                    THEN IsNa(pct)
                    ELSE pct = [k |-> "num", n |-> cur.n - prev.n, d |-> prev.n]
        /\ CorrRan =>
            corr_n <= Cardinality({i \in DOMAIN corr_weekly.rows :
                            /\ ~IsNa(corr_weekly.rows[i]["news_pctchange"])
                            /\ ~IsNa(corr_weekly.rows[i]["nextDreams_pctchange"])})

\* C8: the number of rows the correlation is computed on is at most
\* min(len1, len2 - Lag), both series being columns of the weekly table.
C8_JoinRowCount ==
    CorrRan =>
        corr_n <= Min(Len(corr_weekly.rows), Len(corr_weekly.rows) - Lag)

\* C8 witness: a correlation over at least one surviving row
C8_Witness ==
    /\ corr_pc = "write_stat"
    /\ corr_n >= 1

\* C11: a written values table (weekly correlation values, daily regression
\* values) has one row per bucket of its table, each bucket once, and writes
\* no missing value as an empty field: every missing value is written "NA".
C11_ValuesMarkMissingNA ==
    /\ \A t \in Range(corr_files.vals) :
        /\ Len(t) = Len(corr_weekly.rows)
        /\ \A i, j \in DOMAIN t : t[i]["timestamp"] = t[j]["timestamp"] => i = j
        /\ \A i \in DOMAIN t : \A f \in DOMAIN t[i] \ {"timestamp", "week"} :
            IsNa(corr_weekly.rows[i][f]) => t[i][f].text = "NA"
    /\ \A t \in Range(regr_files.vals) :
        /\ \A i, j \in DOMAIN t : t[i].date = t[j].date => i = j
        /\ \A i \in DOMAIN t : \A f \in {"pred", "data", "datasmooth"} :
            t[i][f].text # DefaultNaRep

-----------------------------------------------------------------------------
(* Claims about anxiety_regr.py                                            *)

\* lines 63-77 have run
RegressorsAdded == regr_pc \notin {"idle", "daily"}

\* C16: Covid of a daily bucket is 1 exactly when its date is at or after
\* the anchor date (the anchor's own bucket is post); TimeCovid is 0 for every
\* bucket before the anchor and counts the post buckets up to and including
\* the bucket from the first post bucket on.
C16_CovidFromAnchorOn ==
    RegressorsAdded =>
        \A i \in DOMAIN regr_daily :
            /\ regr_daily[i].Covid = (IF regr_daily[i].date >= CovidDay THEN 1 ELSE 0)
            /\ regr_daily[i].TimeCovid =
                    Cardinality({j \in 1..i : regr_daily[j].date >= CovidDay})

\* the counterfactual fit of lines 88-90 has been attempted
PreCovidFitTried == regr_pc \in {"predict", "write", "savefig", "done"} \/
                    (regr_pc \in ErrorKinds \cup {"InsufficientDataError"} /\ regr_pre # <<>>)

\* the counterfactual fit returned and predicted
Predicted == regr_pc \in {"write", "savefig", "done"}

=============================================================================
